---- MODULE Spec2Model ----
(***************************************************************************)
(* A model of the Hack assembler: the line parser (parser.rs), the symbol  *)
(* table (symbol_table.rs), the encoding tables (code.rs) and the two-pass *)
(* orchestrator (assembler.rs).                                            *)
(*                                                                         *)
(* A Rust String is a sequence of one-character strings, so that replace,  *)
(* split, trim, parse and format are computed character by character.      *)
(* An Option is a sequence of length at most one: None is <<>> and         *)
(* Some(x) is <<x>>.                                                       *)
(***************************************************************************)
EXTENDS Integers, Sequences, FiniteSets

VARIABLES
    source,           \* the lines Parser::new read from the input file
    pc,               \* position of main: "new", "fill_symbol_table", "compile", "done", "panic"
    parser,           \* Assembler.parser
    scan,             \* the local clone `parser` of fill_symbol_table (Option)
    symbol_table,     \* Assembler.symbol_table: [table, current_address]
    compiled_output,  \* the local String `compiled_output` of compile
    output_file,      \* the content of the output path (Option)
    locals,           \* the locals of the last loop iteration of compile
    panic_msg,        \* the message of the panic that ended the run
    arg,              \* code.rs: the argument of the encoding function under call
    ret               \* code.rs: what the call returned (Option of a result)

vars == <<source, pc, parser, scan, symbol_table, compiled_output, output_file,
          locals, panic_msg, arg, ret>>

asm_vars == <<source, pc, parser, scan, symbol_table, compiled_output, output_file,
              locals, panic_msg>>

asm_vars_but_pc ==
    <<source, parser, scan, symbol_table, compiled_output, output_file,
      locals, panic_msg>>

----------------------------------------------------------------------------
(* Bounds of the model.                                                    *)

\* The longest dest string given to the Compute arm of compile.
MaxDestLen == 3
\* The longest source drawn from the line vocabulary.
MaxLines == 3
\* The largest value whose decimal string is given to a_value_to_binary.
MaxValue == 66000

----------------------------------------------------------------------------
(* Strings.                                                                *)

None == <<>>
Some(x) == <<x>>

Digits == <<"0", "1", "2", "3", "4", "5", "6", "7", "8", "9">>

IsDigit(c) == \E i \in 1..10 : Digits[i] = c

DigitVal(c) == (CHOOSE i \in 1..10 : Digits[i] = c) - 1

\* str::contains(char)
Contains(s, c) == \E i \in 1..Len(s) : s[i] = c

\* str::starts_with(&str)
StartsWith(s, p) == Len(s) >= Len(p) /\ SubSeq(s, 1, Len(p)) = p

\* str::replace(c, ""): every occurrence of the character c is removed.
RECURSIVE Remove(_, _)
Remove(s, c) ==
    IF s = <<>> THEN <<>>
    ELSE IF Head(s) = c THEN Remove(Tail(s), c)
    ELSE <<Head(s)>> \o Remove(Tail(s), c)

\* str::trim_start_matches(c): every leading c is removed.
RECURSIVE TrimStartMatches(_, _)
TrimStartMatches(s, c) ==
    IF s # <<>> /\ Head(s) = c THEN TrimStartMatches(Tail(s), c) ELSE s

\* str::trim_end_matches(c): every trailing c is removed.
RECURSIVE TrimEndMatches(_, _)
TrimEndMatches(s, c) ==
    IF s # <<>> /\ s[Len(s)] = c THEN TrimEndMatches(SubSeq(s, 1, Len(s) - 1), c) ELSE s

\* str::split(c), collected: the pieces between the occurrences of c; there
\* is always at least one piece, and pieces may be empty.
RECURSIVE SplitFrom(_, _, _)
SplitFrom(s, c, piece) ==
    IF s = <<>> THEN <<piece>>
    ELSE IF Head(s) = c THEN <<piece>> \o SplitFrom(Tail(s), c, <<>>)
    ELSE SplitFrom(Tail(s), c, Append(piece, Head(s)))

Split(s, c) == SplitFrom(s, c, <<>>)

\* u32::to_string: the decimal digits of n, no leading zero.
RECURSIVE U32ToString(_)
U32ToString(n) ==
    IF n < 10 THEN <<Digits[n + 1]>>
    ELSE U32ToString(n \div 10) \o <<Digits[(n % 10) + 1]>>

\* The decimal digits of u32::MAX, 4294967295.
U32MaxDigits == <<"4", "2", "9", "4", "9", "6", "7", "2", "9", "5">>

RECURSIVE DigitsValue(_, _)
DigitsValue(s, acc) ==
    IF s = <<>> THEN acc ELSE DigitsValue(Tail(s), acc * 10 + DigitVal(Head(s)))

\* a <= b for two digit strings of the same length.
RECURSIVE DigitsLeq(_, _)
DigitsLeq(a, b) ==
    IF a = <<>> THEN TRUE
    ELSE IF DigitVal(Head(a)) # DigitVal(Head(b)) THEN DigitVal(Head(a)) < DigitVal(Head(b))
    ELSE DigitsLeq(Tail(a), Tail(b))

\* Whether the value of a digit string fits 32 bits, decided on the digits.
FitsU32(s) ==
    LET d == TrimStartMatches(s, "0")
    IN  Len(d) < Len(U32MaxDigits)
        \/ (Len(d) = Len(U32MaxDigits) /\ DigitsLeq(d, U32MaxDigits))

\* str::parse::<u32>: an optional '+', then one or more decimal digits whose
\* value fits 32 bits; Some(value), or None for the Err cases.
ParseU32(s) ==
    LET body == IF s # <<>> /\ Head(s) = "+" THEN Tail(s) ELSE s
    IN  IF body = <<>> THEN None
        ELSE IF \E i \in 1..Len(body) : ~IsDigit(body[i]) THEN None
        ELSE IF ~FitsU32(body) THEN None
        ELSE Some(DigitsValue(body, 0))

\* The binary digits of n, most significant first, no leading zero.
RECURSIVE BinaryDigits(_)
BinaryDigits(n) ==
    IF n < 2 THEN <<Digits[n + 1]>>
    ELSE BinaryDigits(n \div 2) \o <<Digits[(n % 2) + 1]>>

RECURSIVE Zeros(_)
Zeros(k) == IF k <= 0 THEN <<>> ELSE <<"0">> \o Zeros(k - 1)

\* format!("{:0wb}", n): binary, zero-padded on the left to at least w
\* characters; a wider value is not truncated.
FormatBinary(n, w) == Zeros(w - Len(BinaryDigits(n))) \o BinaryDigits(n)

----------------------------------------------------------------------------
(* parser.rs                                                               *)

\* A function result that may panic instead of returning.
Ok(v) == [ok |-> TRUE, val |-> v, msg |-> ""]
Panic(m) == [ok |-> FALSE, val |-> <<>>, msg |-> m]

\* Parser::new: the cursor before the first line, no current instruction.
ParserNew(lines) ==
    [program |-> lines, current_instruction |-> None, instruction_index |-> 0]

\* Parser::has_more_lines: the iterator still holds a line.
has_more_lines(p) == p.program # <<>>

\* instruction_type with the test for a Compute instruction made first.
instruction_type_ComputeFirst(cur) ==
    IF cur = None THEN Panic("no current instruction")
    ELSE IF Contains(cur[1], "=") \/ Contains(cur[1], ";") THEN Ok("C")
    ELSE IF StartsWith(cur[1], <<"@">>) THEN Ok("A")
    ELSE IF StartsWith(cur[1], <<"(">>) THEN Ok("L")
    ELSE Panic("invalid instruction")

\* Parser::instruction_type on a current_instruction Option.
instruction_type(cur) ==
    IF cur = None THEN Panic("no current instruction")
    ELSE IF StartsWith(cur[1], <<"@">>) THEN Ok("A")
    ELSE IF StartsWith(cur[1], <<"(">>) THEN Ok("L")
    ELSE IF Contains(cur[1], "=") \/ Contains(cur[1], ";") THEN Ok("C")
    ELSE Panic("invalid instruction")

\* The test of the while loop of advance: the peeked line, with its spaces
\* removed, is empty or starts with "//".
IsSkipped(line) ==
    LET l == Remove(line, " ") IN l = <<>> \/ StartsWith(l, <<"/", "/">>)

\* The while loop of advance: what is left of the iterator after it.
RECURSIVE SkipLines(_)
SkipLines(lines) ==
    IF lines # <<>> /\ IsSkipped(Head(lines)) THEN SkipLines(Tail(lines)) ELSE lines

\* NextIndex with the test on the instruction type dropped: a label counts too.
NextIndex_CountsLabels(index, type) == index + 1

\* The instruction_index after the new current instruction was classified.
NextIndex(index, type) == IF type # "L" THEN index + 1 ELSE index

\* Parser::advance: [parser, panic]; panic is "" when advance returns.
advance(p) ==
    LET rest == SkipLines(p.program)
        cur  == IF rest = <<>> THEN None ELSE Some(Remove(Head(rest), " "))
        prog == IF rest = <<>> THEN <<>> ELSE Tail(rest)
        type == instruction_type(cur)
    IN  [parser |-> [program |-> prog,
                     current_instruction |-> cur,
                     instruction_index |->
                         IF type.ok THEN NextIndex(p.instruction_index, type.val)
                         ELSE p.instruction_index],
         panic |-> type.msg]

\* Parser::current_instruction
current_instruction(p) ==
    IF p.current_instruction = None THEN Panic("expected instruction")
    ELSE Ok(p.current_instruction[1])

\* Parser::symbol
symbol(p) ==
    LET type == instruction_type(p.current_instruction)
    IN  IF ~type.ok THEN type
        ELSE IF type.val = "A"
            THEN Ok(TrimStartMatches(p.current_instruction[1], "@"))
        ELSE IF type.val = "L"
            THEN Ok(TrimEndMatches(TrimStartMatches(p.current_instruction[1], "("), ")"))
        ELSE Panic("symbol cannot be called on C instruction type")

\* Parser::assert_current_instruction: the panic message, "" when it returns.
assert_current_instruction(p, expected) ==
    LET type == instruction_type(p.current_instruction)
    IN  IF ~type.ok THEN type.msg
        ELSE IF type.val # expected THEN "expected instruction type"
        ELSE ""

\* Parser::dest
dest(p) ==
    IF assert_current_instruction(p, "C") # ""
        THEN Panic(assert_current_instruction(p, "C"))
    ELSE IF ~Contains(p.current_instruction[1], "=") THEN Ok(<<>>)
    ELSE Ok(Split(p.current_instruction[1], "=")[1])

\* Parser::comp
comp(p) ==
    IF assert_current_instruction(p, "C") # ""
        THEN Panic(assert_current_instruction(p, "C"))
    ELSE IF Contains(p.current_instruction[1], "=")
        THEN Ok(Split(p.current_instruction[1], "=")[2])
    ELSE IF Contains(p.current_instruction[1], ";")
        THEN Ok(Split(p.current_instruction[1], ";")[1])
    ELSE Panic("failed to find comp item")

\* Parser::jump
jump(p) ==
    IF assert_current_instruction(p, "C") # ""
        THEN Panic(assert_current_instruction(p, "C"))
    ELSE IF ~Contains(p.current_instruction[1], ";") THEN Ok(<<>>)
    ELSE LET pieces == Split(p.current_instruction[1], ";")
         IN  Ok(pieces[Len(pieces)])

\* Parser::instruction_index
instruction_index(p) == p.instruction_index

\* Parser::current_line, which fill_symbol_table calls for a label's address:
\* the line-counter accessor, the count of non-label instructions so far.
current_line(p) == instruction_index(p)

----------------------------------------------------------------------------
(* symbol_table.rs                                                         *)

\* The names SymbolTable::new seeds, with their addresses.
Predefined ==
    { <<<<"R", "0">>, 0>>, <<<<"R", "1">>, 1>>, <<<<"R", "2">>, 2>>,
      <<<<"R", "3">>, 3>>, <<<<"R", "4">>, 4>>, <<<<"R", "5">>, 5>>,
      <<<<"R", "6">>, 6>>, <<<<"R", "7">>, 7>>, <<<<"R", "8">>, 8>>,
      <<<<"R", "9">>, 9>>, <<<<"R", "1", "0">>, 10>>, <<<<"R", "1", "1">>, 11>>,
      <<<<"R", "1", "2">>, 12>>, <<<<"R", "1", "3">>, 13>>,
      <<<<"R", "1", "4">>, 14>>, <<<<"R", "1", "5">>, 15>>,
      <<<<"S", "P">>, 0>>, <<<<"L", "C", "L">>, 1>>, <<<<"A", "R", "G">>, 2>>,
      <<<<"T", "H", "I", "S">>, 3>>, <<<<"T", "H", "A", "T">>, 4>>,
      <<<<"S", "C", "R", "E", "E", "N">>, 16384>>, <<<<"K", "B", "D">>, 24576>> }

PredefinedNames == { e[1] : e \in Predefined }

\* The first address SymbolTable::new gives to a variable.
FirstVariableAddress == 16

\* SymbolTableNew with two digits of the KBD address exchanged.
SymbolTableNew_KbdTypo ==
    [table |-> [n \in PredefinedNames |->
                   IF n = <<"K", "B", "D">> THEN 24567
                   ELSE (CHOOSE e \in Predefined : e[1] = n)[2]],
     current_address |-> FirstVariableAddress]

\* SymbolTable::new
SymbolTableNew ==
    [table |-> [n \in PredefinedNames |-> (CHOOSE e \in Predefined : e[1] = n)[2]],
     current_address |-> FirstVariableAddress]

\* HashMap::insert: the key is bound to the value, whatever it was bound to.
Insert(table, key, value) ==
    [k \in (DOMAIN table) \cup {key} |-> IF k = key THEN value ELSE table[k]]

\* add_label that keeps the binding a name already has.
add_label_KeepFirst(st, name, address) ==
    IF name \in DOMAIN st.table THEN st
    ELSE [st EXCEPT !.table = Insert(st.table, name, address)]

\* SymbolTable::add_label
add_label(st, name, address) ==
    [st EXCEPT !.table = Insert(st.table, name, address)]

\* add_variable with the increment of current_address left out.
add_variable_NoIncrement(st, name) ==
    [st |-> [table |-> Insert(st.table, name, st.current_address),
             current_address |-> st.current_address],
     address |-> st.current_address]

\* SymbolTable::add_variable: [st, address]
add_variable(st, name) ==
    [st |-> [table |-> Insert(st.table, name, st.current_address),
             current_address |-> st.current_address + 1],
     address |-> (st.current_address + 1) - 1]

\* SymbolTable::address
address(st, name) ==
    IF name \in DOMAIN st.table THEN Some(st.table[name]) ELSE None

----------------------------------------------------------------------------
(* code.rs                                                                 *)

\* The width of a machine word in binary digits.
WordWidth == 16

\* a_value_to_binary padding to the 15 bits of an address value.
a_value_to_binary_15(instruction) ==
    IF ParseU32(instruction) = None THEN Panic("failed to parse A instruction")
    ELSE Ok(FormatBinary(ParseU32(instruction)[1], WordWidth - 1))

\* a_value_to_binary
a_value_to_binary(instruction) ==
    IF ParseU32(instruction) = None THEN Panic("failed to parse A instruction")
    ELSE Ok(FormatBinary(ParseU32(instruction)[1], WordWidth))

\* dest_to_binary with the weights of A and M exchanged.
dest_to_binary_Reversed(instruction) ==
    Ok(FormatBinary((IF Contains(instruction, "M") THEN 4 ELSE 0)
                    + (IF Contains(instruction, "D") THEN 2 ELSE 0)
                    + (IF Contains(instruction, "A") THEN 1 ELSE 0), 3))

\* dest_to_binary
dest_to_binary(instruction) ==
    Ok(FormatBinary((IF Contains(instruction, "M") THEN 1 ELSE 0)
                    + (IF Contains(instruction, "D") THEN 2 ELSE 0)
                    + (IF Contains(instruction, "A") THEN 4 ELSE 0), 3))

\* The match of comp_to_binary: mnemonic and 6-bit code, arm by arm.
CompTable ==
    { <<<<"0">>, <<"1", "0", "1", "0", "1", "0">>>>,
      <<<<"1">>, <<"1", "1", "1", "1", "1", "1">>>>,
      <<<<"-", "1">>, <<"1", "1", "1", "0", "1", "0">>>>,
      <<<<"D">>, <<"0", "0", "1", "1", "0", "0">>>>,
      <<<<"A">>, <<"1", "1", "0", "0", "0", "0">>>>,
      <<<<"M">>, <<"1", "1", "0", "0", "0", "0">>>>,
      <<<<"!", "D">>, <<"0", "0", "1", "1", "0", "1">>>>,
      <<<<"!", "A">>, <<"1", "1", "0", "0", "0", "1">>>>,
      <<<<"!", "M">>, <<"1", "1", "0", "0", "0", "1">>>>,
      <<<<"-", "D">>, <<"0", "0", "1", "1", "1", "1">>>>,
      <<<<"-", "A">>, <<"1", "1", "0", "0", "1", "1">>>>,
      <<<<"-", "M">>, <<"1", "1", "0", "0", "1", "1">>>>,
      <<<<"D", "+", "1">>, <<"0", "1", "1", "1", "1", "1">>>>,
      <<<<"A", "+", "1">>, <<"1", "1", "0", "1", "1", "1">>>>,
      <<<<"M", "+", "1">>, <<"1", "1", "0", "1", "1", "1">>>>,
      <<<<"D", "-", "1">>, <<"0", "0", "1", "1", "1", "0">>>>,
      <<<<"A", "-", "1">>, <<"1", "1", "0", "0", "1", "0">>>>,
      <<<<"M", "-", "1">>, <<"1", "1", "0", "0", "1", "0">>>>,
      <<<<"D", "+", "A">>, <<"0", "0", "0", "0", "1", "0">>>>,
      <<<<"D", "+", "M">>, <<"0", "0", "0", "0", "1", "0">>>>,
      <<<<"D", "-", "A">>, <<"0", "1", "0", "0", "1", "1">>>>,
      <<<<"D", "-", "M">>, <<"0", "1", "0", "0", "1", "1">>>>,
      <<<<"A", "-", "D">>, <<"0", "0", "0", "1", "1", "1">>>>,
      <<<<"M", "-", "D">>, <<"0", "0", "0", "1", "1", "1">>>>,
      <<<<"D", "&", "A">>, <<"0", "0", "0", "0", "0", "0">>>>,
      <<<<"D", "&", "M">>, <<"0", "0", "0", "0", "0", "0">>>>,
      <<<<"D", "|", "A">>, <<"0", "1", "0", "1", "0", "1">>>>,
      <<<<"D", "|", "M">>, <<"0", "1", "0", "1", "0", "1">>>> }

\* comp_to_binary
comp_to_binary(instruction) ==
    LET prefix == IF Contains(instruction, "M") THEN <<"1">> ELSE <<"0">>
    IN  IF \E e \in CompTable : e[1] = instruction
            THEN Ok(prefix \o (CHOOSE e \in CompTable : e[1] = instruction)[2])
        ELSE Panic("unexpected comp")

\* The match of jump_to_binary: mnemonic and 3-bit code, arm by arm.
JumpTable ==
    { <<<<>>, <<"0", "0", "0">>>>,
      <<<<"J", "G", "T">>, <<"0", "0", "1">>>>,
      <<<<"J", "E", "Q">>, <<"0", "1", "0">>>>,
      <<<<"J", "G", "E">>, <<"0", "1", "1">>>>,
      <<<<"J", "L", "T">>, <<"1", "0", "0">>>>,
      <<<<"J", "N", "E">>, <<"1", "0", "1">>>>,
      <<<<"J", "L", "E">>, <<"1", "1", "0">>>>,
      <<<<"J", "M", "P">>, <<"1", "1", "1">>>> }

\* jump_to_binary
jump_to_binary(instruction) ==
    IF \E e \in JumpTable : e[1] = instruction
        THEN Ok((CHOOSE e \in JumpTable : e[1] = instruction)[2])
    ELSE Panic("unexpected dest")

----------------------------------------------------------------------------
(* The sources of a run.                                                   *)

AtI      == <<"@", "i">>
AtJ      == <<"@", " ", "j">>
AtLoop   == <<"@", "L", "O", "O", "P">>
AtSP     == <<"@", "S", "P">>
AtTwo    == <<"@", "2">>
Loop     == <<"(", "L", "O", "O", "P", ")">>
LabelSP  == <<"(", "S", "P", ")">>
LabelTwo == <<"(", "2", ")">>
DecM     == <<"M", "=", "M", "-", "1">>
Jmp      == <<"0", ";", "J", "M", "P">>
DJgt     == <<"D", "=", "M", ";", "J", "G", "T">>
Blank    == <<>>
Comment  == <<" ", "/", "/", "c">>
Spaces   == <<" ", " ">>
AtBig    == <<"@", "7", "0", "0", "0", "0">>
TabOnly  == <<"\t">>
TabTwo   == <<"@", "2", "\t">>
Invalid  == <<"x">>
BadComp  == <<"D", "=", "Q">>
BadJump  == <<"0", ";", "J", "X", "X">>

\* Address, Label and Compute lines in their documented surface forms
\* (spaces are allowed anywhere in a line).
WellFormedLines == {AtI, AtJ, AtLoop, AtSP, AtTwo, Loop, DecM, Jmp, DJgt}

\* Blank and comment-only lines.
BlankLines == {Blank, Comment, Spaces}

\* The lines every source of up to MaxLines lines is drawn from.
LineVocabulary ==
    {AtI, AtJ, AtLoop, AtTwo, Loop, LabelSP, DecM, Jmp, Blank}

\* The end-to-end program of the documentation.
LoopProgram == <<Loop, AtI, DecM, AtLoop, Jmp>>

\* Sources with lines outside the vocabulary: a reference to a predefined
\* name, a three-field Compute line, a numeric label, comments, lines of
\* spaces, tabs, an address wider than a word, a line of no instruction shape,
\* a comp and a jump outside the tables, a label defined twice, two
\* variables followed by bound and numeric symbols.
OtherSources ==
    { LoopProgram,
      <<AtSP>>, <<Loop, AtI, AtSP>>, <<AtSP, LabelSP, AtSP>>, <<AtI, LabelSP, AtSP, Jmp>>,
      <<DJgt>>, <<AtI, DJgt, DecM>>, <<Loop, DJgt, AtLoop, Jmp>>,
      <<AtI, LabelTwo, AtTwo>>, <<AtTwo, DecM, AtTwo, LabelTwo>>,
      <<Comment, AtI, Comment, DecM>>, <<AtI, Comment>>, <<Comment>>,
      <<Spaces, AtI, Spaces, DecM>>, <<AtI, Spaces>>,
      <<TabOnly>>, <<TabTwo>>, <<AtTwo, TabTwo, TabOnly>>,
      <<AtBig>>, <<Loop, AtBig, AtLoop>>,
      <<Invalid>>, <<AtI, Invalid, DecM>>,
      <<AtI, BadComp, DecM>>, <<AtI, BadJump>>,
      <<AtLoop, Loop, AtI, Loop, AtLoop>>, <<Loop, DecM, Loop, AtLoop, Loop>>,
      <<Loop, AtI, AtJ, AtLoop, AtTwo, AtI>> }

Sources ==
    UNION { [1..n -> LineVocabulary] : n \in 0..MaxLines } \cup OtherSources

----------------------------------------------------------------------------
(* assembler.rs                                                            *)

C_PREFIX == <<"1", "1", "1">>

NoLocals ==
    [kind |-> "", symbol |-> <<>>, resolved |-> <<>>,
     dest |-> <<>>, comp |-> <<>>, jump |-> <<>>]

\* AddVariable without the table lookup: every symbol that is not numeric is
\* allocated, bound or not.
AddVariable_NoLookup(st, sym) ==
    IF ParseU32(sym) = None
        THEN [st |-> add_variable(st, sym).st,
              symbol |-> U32ToString(add_variable(st, sym).address)]
    ELSE [st |-> st, symbol |-> sym]

\* AddVariable with the numeric test made before the table lookup.
AddVariable_NumericFirst(st, sym) ==
    IF ParseU32(sym) # None THEN [st |-> st, symbol |-> sym]
    ELSE IF address(st, sym) # None
        THEN [st |-> st, symbol |-> U32ToString(address(st, sym)[1])]
    ELSE [st |-> add_variable(st, sym).st,
          symbol |-> U32ToString(add_variable(st, sym).address)]

\* Assembler<Initialized>::add_variable: [st, symbol]
AddVariable(st, sym) ==
    IF address(st, sym) # None
        THEN [st |-> st, symbol |-> U32ToString(address(st, sym)[1])]
    ELSE IF ParseU32(sym) = None
        THEN [st |-> add_variable(st, sym).st,
              symbol |-> U32ToString(add_variable(st, sym).address)]
    ELSE [st |-> st, symbol |-> sym]

\* Assembler<Uninitialized>::new, for every source the model draws.
Init ==
    /\ source \in Sources
    /\ pc = "new"
    /\ parser = ParserNew(source)
    /\ scan = None
    /\ symbol_table = SymbolTableNew
    /\ compiled_output = <<>>
    /\ output_file = None
    /\ locals = NoLocals
    /\ panic_msg = ""
    /\ arg = <<>>
    /\ ret = None

\* fill_symbol_table, line 41: the parser is cloned.
FillBegin ==
    /\ pc = "new"
    /\ pc' = "fill_symbol_table"
    /\ scan' = Some(parser)
    /\ UNCHANGED <<source, parser, symbol_table, compiled_output, output_file,
                   locals, panic_msg, arg, ret>>

\* fill_symbol_table, lines 43-51: one iteration of the loop over the clone.
FillStep ==
    /\ pc = "fill_symbol_table"
    /\ has_more_lines(scan[1])
    /\ LET adv == advance(scan[1])
       IN  /\ scan' = Some(adv.parser)
           /\ IF adv.panic # ""
                THEN /\ pc' = "panic"
                     /\ panic_msg' = adv.panic
                     /\ UNCHANGED symbol_table
                ELSE /\ UNCHANGED <<pc, panic_msg>>
                     /\ symbol_table' =
                            IF instruction_type(adv.parser.current_instruction).val = "L"
                                THEN add_label(symbol_table, symbol(adv.parser).val,
                                               current_line(adv.parser))
                            ELSE symbol_table
    /\ UNCHANGED <<source, parser, compiled_output, output_file, locals, arg, ret>>

\* FillEnd without the loop condition: the Assembler<Initialized> may be
\* built while the clone still holds lines.
FillEnd_Early ==
    /\ pc = "fill_symbol_table"
    /\ pc' = "compile"
    /\ scan' = None
    /\ UNCHANGED <<source, parser, symbol_table, compiled_output, output_file,
                   locals, panic_msg, arg, ret>>

\* FillEnd with pass 1 run on the assembler's own parser: the
\* Assembler<Initialized> gets the parser pass 1 advanced.
FillEnd_NoClone ==
    /\ pc = "fill_symbol_table"
    /\ ~has_more_lines(scan[1])
    /\ pc' = "compile"
    /\ parser' = scan[1]
    /\ scan' = None
    /\ UNCHANGED <<source, symbol_table, compiled_output, output_file,
                   locals, panic_msg, arg, ret>>

\* fill_symbol_table, lines 53-58: the loop is over, the Assembler<Initialized>
\* is built from the untouched parser and the filled table.
FillEnd ==
    /\ pc = "fill_symbol_table"
    /\ ~has_more_lines(scan[1])
    /\ pc' = "compile"
    /\ scan' = None
    /\ UNCHANGED <<source, parser, symbol_table, compiled_output, output_file,
                   locals, panic_msg, arg, ret>>

\* The bits of a Compute instruction, lines 78-81: the three tables are
\* called in this order and the first panic ends the run.
ComputeBits(d, c, j) ==
    IF ~comp_to_binary(c).ok THEN comp_to_binary(c)
    ELSE IF ~dest_to_binary(d).ok THEN dest_to_binary(d)
    ELSE IF ~jump_to_binary(j).ok THEN jump_to_binary(j)
    ELSE Ok(C_PREFIX \o comp_to_binary(c).val \o dest_to_binary(d).val
            \o jump_to_binary(j).val)

\* What one emitted instruction appends to compiled_output, line 85.
Emit(out, bits) == out \o bits \o <<"\n">>

\* compile, lines 66-86: one iteration of the loop.
CompileStep ==
    /\ pc = "compile"
    /\ has_more_lines(parser)
    /\ LET adv  == advance(parser)
           type == instruction_type(adv.parser.current_instruction)
       IN  /\ parser' = adv.parser
           /\ IF adv.panic # ""
                THEN /\ pc' = "panic"
                     /\ panic_msg' = adv.panic
                     /\ UNCHANGED <<symbol_table, compiled_output, locals>>
              ELSE IF type.val = "A"
                THEN LET sym  == symbol(adv.parser).val
                         res  == AddVariable(symbol_table, sym)
                         bits == a_value_to_binary(res.symbol)
                     IN  /\ symbol_table' = res.st
                         /\ locals' = [NoLocals EXCEPT !.kind = "A", !.symbol = sym,
                                                       !.resolved = res.symbol]
                         /\ IF bits.ok
                              THEN /\ compiled_output' = Emit(compiled_output, bits.val)
                                   /\ UNCHANGED <<pc, panic_msg>>
                              ELSE /\ pc' = "panic"
                                   /\ panic_msg' = bits.msg
                                   /\ UNCHANGED compiled_output
              ELSE IF type.val = "C"
                THEN LET d    == dest(adv.parser).val
                         c    == comp(adv.parser).val
                         j    == jump(adv.parser).val
                         bits == ComputeBits(d, c, j)
                     IN  /\ locals' = [NoLocals EXCEPT !.kind = "C", !.dest = d,
                                                       !.comp = c, !.jump = j]
                         /\ UNCHANGED symbol_table
                         /\ IF bits.ok
                              THEN /\ compiled_output' = Emit(compiled_output, bits.val)
                                   /\ UNCHANGED <<pc, panic_msg>>
                              ELSE /\ pc' = "panic"
                                   /\ panic_msg' = bits.msg
                                   /\ UNCHANGED compiled_output
              ELSE /\ locals' = [NoLocals EXCEPT !.kind = "L"]
                   /\ UNCHANGED <<pc, panic_msg, symbol_table, compiled_output>>
    /\ UNCHANGED <<source, scan, output_file, arg, ret>>

\* CompileWrite with the write moved into the loop: the output so far is
\* written while lines remain.
CompileWrite_InsideLoop ==
    /\ pc = "compile"
    /\ output_file # Some(compiled_output)
    /\ output_file' = Some(compiled_output)
    /\ pc' = IF has_more_lines(parser) THEN "compile" ELSE "done"
    /\ UNCHANGED <<source, parser, scan, symbol_table, compiled_output, locals,
                   panic_msg, arg, ret>>

\* compile, line 88: the loop is over, the output is written.
CompileWrite ==
    /\ pc = "compile"
    /\ ~has_more_lines(parser)
    /\ output_file' = Some(compiled_output)
    /\ pc' = "done"
    /\ UNCHANGED <<source, parser, scan, symbol_table, compiled_output, locals,
                   panic_msg, arg, ret>>

Next == FillBegin \/ FillStep \/ FillEnd \/ CompileStep \/ CompileWrite

\* main: Assembler::new, fill_symbol_table, compile.
Spec == Init /\ [][Next]_vars

----------------------------------------------------------------------------
(* The encoding functions of code.rs called on their own.                  *)

\* Strings that are not the decimal string of a value up to MaxValue.
OtherAddressStrings ==
    { <<>>, <<"i">>, <<"+", "5">>, <<"-", "1">>, <<"0", "0", "7">>, <<"1", " ">>,
      <<"4", "2", "9", "4", "9", "6", "7", "2", "9", "6">> }

AddressStrings == { U32ToString(v) : v \in 0..MaxValue } \cup OtherAddressStrings

InitCode ==
    /\ source = <<>>
    /\ pc = "code"
    /\ parser = ParserNew(<<>>)
    /\ scan = None
    /\ symbol_table = SymbolTableNew
    /\ compiled_output = <<>>
    /\ output_file = None
    /\ locals = NoLocals
    /\ panic_msg = ""
    /\ arg \in AddressStrings
    /\ ret = None

\* A call of a_value_to_binary.
CallAValueToBinary ==
    /\ pc = "code"
    /\ ret = None
    /\ ret' = Some(a_value_to_binary(arg))
    /\ UNCHANGED <<arg, asm_vars>>

NextCode == CallAValueToBinary

SpecCode == InitCode /\ [][NextCode]_vars

----------------------------------------------------------------------------
(* The Compute arm of compile on the fields of an instruction.             *)

CompMnemonics == { e[1] : e \in CompTable }

JumpMnemonics == { e[1] : e \in JumpTable }

\* The strings over the letters A, D and M of up to MaxDestLen letters.
DestStrings == UNION { [1..n -> {"A", "D", "M"}] : n \in 0..MaxDestLen }

\* Fields outside the vocabularies of the tables.
OtherComps == { <<"M", ";", "J", "G", "T">>, <<"D", "+", "2">>, <<>> }

OtherJumps == { <<"J", "X", "X">> }

InitCompute ==
    /\ source = <<>>
    /\ pc = "compute"
    /\ parser = ParserNew(<<>>)
    /\ scan = None
    /\ symbol_table = SymbolTableNew
    /\ compiled_output = <<>>
    /\ output_file = None
    /\ locals = NoLocals
    /\ panic_msg = ""
    /\ arg \in DestStrings \X (CompMnemonics \cup OtherComps)
                 \X (JumpMnemonics \cup OtherJumps)
    /\ ret = None

\* compile, lines 78-85, on dest arg[1], comp arg[2] and jump arg[3]: the
\* bits are built and the line is appended, or the run panics.
CompileComputeArm ==
    /\ pc = "compute"
    /\ ret = None
    /\ LET bits == ComputeBits(arg[1], arg[2], arg[3])
       IN  /\ ret' = Some(bits)
           /\ locals' = [NoLocals EXCEPT !.kind = "C", !.dest = arg[1],
                                         !.comp = arg[2], !.jump = arg[3]]
           /\ IF bits.ok
                THEN /\ compiled_output' = Emit(compiled_output, bits.val)
                     /\ UNCHANGED <<pc, panic_msg>>
                ELSE /\ pc' = "panic"
                     /\ panic_msg' = bits.msg
                     /\ UNCHANGED compiled_output
    /\ UNCHANGED <<source, parser, scan, symbol_table, output_file, arg>>

NextCompute == CompileComputeArm

SpecCompute == InitCompute /\ [][NextCompute]_vars

----------------------------------------------------------------------------
(* The three tables of code.rs, each called on a string.                   *)

\* Strings with a letter no table knows, in lower case, with a space.
OtherFields ==
    { <<"X">>, <<"A", "X">>, <<"X", "M", "D">>, <<"m">>, <<"j", "m", "p">>,
      <<"J", "M", "P", " ">>, <<"D", " ", "+", " ", "1">>, <<"1", "+", "D">>,
      <<"n", "u", "l", "l">>, <<"Q">> }

FieldStrings ==
    CompMnemonics \cup OtherComps \cup JumpMnemonics \cup OtherJumps
        \cup DestStrings \cup OtherFields

InitTables ==
    /\ source = <<>>
    /\ pc = "code"
    /\ parser = ParserNew(<<>>)
    /\ scan = None
    /\ symbol_table = SymbolTableNew
    /\ compiled_output = <<>>
    /\ output_file = None
    /\ locals = NoLocals
    /\ panic_msg = ""
    /\ arg \in FieldStrings
    /\ ret = None

CallCompToBinary ==
    /\ pc = "code"
    /\ pc' = "comp_to_binary"
    /\ ret' = Some(comp_to_binary(arg))
    /\ UNCHANGED <<asm_vars_but_pc, arg>>

CallDestToBinary ==
    /\ pc = "code"
    /\ pc' = "dest_to_binary"
    /\ ret' = Some(dest_to_binary(arg))
    /\ UNCHANGED <<asm_vars_but_pc, arg>>

CallJumpToBinary ==
    /\ pc = "code"
    /\ pc' = "jump_to_binary"
    /\ ret' = Some(jump_to_binary(arg))
    /\ UNCHANGED <<asm_vars_but_pc, arg>>

NextTables == CallCompToBinary \/ CallDestToBinary \/ CallJumpToBinary

SpecTables == InitTables /\ [][NextTables]_vars

----------------------------------------------------------------------------
(* The public accessors of the parser, called between the steps of a run.  *)

\* Lines that match more than one shape test, or none.
AtEquals    == <<"@", "D", "=", "M">>
LabelSemi   == <<"(", "A", ";", "B", ")">>
OpenOnly    == <<"(">>
EqualsOnly  == <<"=">>
SemiOnly    == <<";">>
Bare        == <<"D", "+", "1">>
CloseFirst  == <<")", "(">>

ClassifierLines ==
    {AtI, Loop, DecM, Jmp, DJgt, Blank, Invalid, TabOnly,
     AtEquals, LabelSemi, OpenOnly, EqualsOnly, SemiOnly, Bare, CloseFirst}

ParserSources ==
    OtherSources \cup { <<l>> : l \in ClassifierLines }
        \cup { <<AtI, l, DecM>> : l \in ClassifierLines }

InitParser ==
    /\ source \in ParserSources
    /\ pc = "new"
    /\ parser = ParserNew(source)
    /\ scan = None
    /\ symbol_table = SymbolTableNew
    /\ compiled_output = <<>>
    /\ output_file = None
    /\ locals = NoLocals
    /\ panic_msg = ""
    /\ arg = <<>>
    /\ ret = None

\* The parser the run is advancing: the clone in pass 1, self.parser otherwise.
LiveParser == IF scan # None THEN scan[1] ELSE parser

\* A step of the run, while no accessor has been called from outside.
RunStep == ret = None /\ Next

CallInstructionType ==
    /\ ret = None
    /\ arg' = <<"instruction_type", LiveParser>>
    /\ ret' = Some(instruction_type(LiveParser.current_instruction))
    /\ UNCHANGED asm_vars

CallSymbol ==
    /\ ret = None
    /\ arg' = <<"symbol", LiveParser>>
    /\ ret' = Some(symbol(LiveParser))
    /\ UNCHANGED asm_vars

CallDest ==
    /\ ret = None
    /\ arg' = <<"dest", LiveParser>>
    /\ ret' = Some(dest(LiveParser))
    /\ UNCHANGED asm_vars

CallComp ==
    /\ ret = None
    /\ arg' = <<"comp", LiveParser>>
    /\ ret' = Some(comp(LiveParser))
    /\ UNCHANGED asm_vars

CallJump ==
    /\ ret = None
    /\ arg' = <<"jump", LiveParser>>
    /\ ret' = Some(jump(LiveParser))
    /\ UNCHANGED asm_vars

NextParser ==
    RunStep \/ CallInstructionType \/ CallSymbol \/ CallDest \/ CallComp \/ CallJump

SpecParser == InitParser /\ [][NextParser]_vars

----------------------------------------------------------------------------
(* What the properties are stated with: the lines of the source as the     *)
(* documentation reads them.                                               *)

Range(f) == { f[i] : i \in DOMAIN f }

\* "skip" for a blank or comment-only line, else the shape of the line, or
\* "invalid" for a line of no shape.
KindOf(line) ==
    IF IsSkipped(line) THEN "skip"
    ELSE IF instruction_type(Some(Remove(line, " "))).ok
        THEN instruction_type(Some(Remove(line, " "))).val
    ELSE "invalid"

IsReal(line) == KindOf(line) \in {"A", "C"}

\* The number of real (Address or Compute) instructions before line p.
RealBefore(src, p) == Cardinality({ q \in 1..(p - 1) : IsReal(src[q]) })

\* The number of lines a parser has taken from the source.
Consumed(p) == Len(source) - Len(p.program)

NameOfLabel(line) ==
    TrimEndMatches(TrimStartMatches(Remove(line, " "), "("), ")")

NameOfAddress(line) == TrimStartMatches(Remove(line, " "), "@")

LabelPositions(src) == { p \in 1..Len(src) : KindOf(src[p]) = "L" }

LabelNames(src) == { NameOfLabel(src[p]) : p \in LabelPositions(src) }

\* The last definition of label n in the source.
LastDefinition(src, n) ==
    CHOOSE p \in LabelPositions(src) :
        /\ NameOfLabel(src[p]) = n
        /\ \A q \in LabelPositions(src) : NameOfLabel(src[q]) = n => q <= p

\* The address of label n: the real instructions before its last definition.
LabelAddress(src, n) == RealBefore(src, LastDefinition(src, n))

\* The symbols of the Address lines among the first n lines that are not
\* numeric and neither predefined nor a label of the source, each once, in
\* the order of their first occurrence.
RECURSIVE VariableOrderAmong(_, _, _)
VariableOrderAmong(src, n, bound) ==
    IF n = 0 THEN <<>>
    ELSE LET prev == VariableOrderAmong(src, n - 1, bound)
             sym  == NameOfAddress(src[n])
         IN  IF /\ KindOf(src[n]) = "A"
                /\ ParseU32(sym) = None
                /\ sym \notin bound
                /\ sym \notin Range(prev)
             THEN Append(prev, sym) ELSE prev

VariableOrder(src, n) ==
    VariableOrderAmong(src, n, PredefinedNames \cup LabelNames(src))

PositionIn(seq, x) == CHOOSE i \in 1..Len(seq) : seq[i] = x

\* The first position of character c in s, 0 when there is none.
FirstIndex(s, c) ==
    IF Contains(s, c)
        THEN CHOOSE i \in 1..Len(s) : s[i] = c /\ \A j \in 1..(i - 1) : s[j] # c
    ELSE 0

IsBinary(s) == \A i \in 1..Len(s) : s[i] \in {"0", "1"}

\* The value of a string of binary digits.
RECURSIVE BinaryValue(_, _)
BinaryValue(s, acc) ==
    IF s = <<>> THEN acc ELSE BinaryValue(Tail(s), 2 * acc + DigitVal(Head(s)))

\* The lines of an output: the pieces its newlines end.
OutputLines(out) == SubSeq(Split(out, "\n"), 1, Len(Split(out, "\n")) - 1)

NewlineTerminated(out) == Split(out, "\n")[Len(Split(out, "\n"))] = <<>>

\* The real instructions of a source, in source order.
RECURSIVE RealInstructions(_)
RealInstructions(src) ==
    IF src = <<>> THEN <<>>
    ELSE IF IsReal(Head(src)) THEN <<Head(src)>> \o RealInstructions(Tail(src))
    ELSE RealInstructions(Tail(src))

LoopOutput ==
    <<"0", "0", "0", "0", "0", "0", "0", "0", "0", "0", "0", "1", "0", "0", "0", "0">> \o <<"\n">> \o
    <<"1", "1", "1", "1", "1", "1", "0", "0", "1", "0", "0", "0", "1", "0", "0", "0">> \o <<"\n">> \o
    <<"0", "0", "0", "0", "0", "0", "0", "0", "0", "0", "0", "0", "0", "0", "0", "0">> \o <<"\n">> \o
    <<"1", "1", "1", "0", "1", "0", "1", "0", "1", "0", "0", "0", "0", "1", "1", "1">> \o <<"\n">>

AfterPass1 == pc \in {"compile", "done"}

----------------------------------------------------------------------------
(* The properties.                                                         *)

\* C1: a source of well-formed Address, Label and Compute lines never ends
\* in a panic, and once written the output is newline-terminated and holds
\* one 16-digit binary line per Address or Compute instruction, in source
\* order (the k-th line starts with 0 exactly when the k-th real instruction
\* is an Address instruction), none for a Label; the documentation's loop
\* program yields its four documented lines.
C1_OneLinePerInstruction ==
    (\A i \in 1..Len(source) : source[i] \in WellFormedLines) =>
        /\ pc # "panic"
        /\ pc = "done" =>
            /\ NewlineTerminated(output_file[1])
            /\ Len(OutputLines(output_file[1])) = Len(RealInstructions(source))
            /\ \A k \in 1..Len(OutputLines(output_file[1])) :
                /\ Len(OutputLines(output_file[1])[k]) = WordWidth
                /\ IsBinary(OutputLines(output_file[1])[k])
                /\ (OutputLines(output_file[1])[k][1] = "0")
                       <=> (KindOf(RealInstructions(source)[k]) = "A")
            /\ source = LoopProgram => output_file[1] = LoopOutput

\* C2: for the Compute instruction compile has just taken apart, dest is
\* what precedes '=' (empty without '='), comp is what lies between '=' and
\* ';' (from the start without '=', to the end without ';'), and jump is
\* what follows ';' (empty without ';').
C2_FieldsAreTheSubstrings ==
    (/\ locals.kind = "C"
     /\ instruction_type(parser.current_instruction).ok
     /\ instruction_type(parser.current_instruction).val = "C") =>
        LET ins  == parser.current_instruction[1]
            eq   == FirstIndex(ins, "=")
            semi == FirstIndex(ins, ";")
        IN  /\ locals.dest = (IF eq = 0 THEN <<>> ELSE SubSeq(ins, 1, eq - 1))
            /\ locals.comp =
                   SubSeq(ins, eq + 1, (IF semi = 0 THEN Len(ins) ELSE semi - 1))
            /\ locals.jump = (IF semi = 0 THEN <<>> ELSE SubSeq(ins, semi + 1, Len(ins)))

\* C3: while a pass runs, its parser's instruction index is the number of
\* real instructions among the lines it has taken (a label never counts, an
\* Address or Compute line counts once); and after fill_symbol_table every
\* label of the source is bound to the number of real instructions before
\* its (last) definition.
C3_LabelsBoundToRealCount ==
    /\ (pc = "fill_symbol_table") =>
           scan[1].instruction_index = RealBefore(source, Consumed(scan[1]) + 1)
    /\ AfterPass1 =>
        /\ parser.instruction_index = RealBefore(source, Consumed(parser) + 1)
        /\ LET defs == LabelPositions(source)
           IN  \A p \in defs :
                   (\A q \in defs :
                        NameOfLabel(source[q]) = NameOfLabel(source[p]) => q <= p)
                       => address(symbol_table, NameOfLabel(source[p]))
                              = Some(RealBefore(source, p))

\* C3's case: pass 1 is over and a label defined after two real instructions
\* is bound to 2.
C3_Witness ==
    /\ AfterPass1
    /\ \E p \in LabelPositions(source) :
           /\ RealBefore(source, p) = 2
           /\ address(symbol_table, NameOfLabel(source[p])) = Some(2)

\* C4: during compile the variables allocated so far are exactly the
\* non-numeric, unbound Address symbols met so far, the i-th of them in order
\* of first occurrence bound to 16 + (i - 1); the allocation counter is 16
\* plus their number, so a repeated symbol does not advance it; and the
\* Address instruction just compiled, if its symbol is one of them, resolved
\* to that same address.
C4_VariablesFromSixteen ==
    AfterPass1 =>
        LET order == VariableOrder(source, Consumed(parser))
        IN  /\ \A i \in 1..Len(order) :
                   address(symbol_table, order[i]) = Some(16 + (i - 1))
            /\ symbol_table.current_address = 16 + Len(order)
            /\ (locals.kind = "A" /\ locals.symbol \in Range(order)) =>
                   locals.resolved = U32ToString(16 + (PositionIn(order, locals.symbol) - 1))

\* C4's case: two variables are allocated and the first of them has just
\* been met again, resolving to 16 with the counter still at 18.
C4_Witness ==
    /\ pc = "compile"
    /\ Consumed(parser) >= 1
    /\ Len(VariableOrder(source, Consumed(parser) - 1)) = 2
    /\ locals.kind = "A"
    /\ locals.symbol = VariableOrder(source, Consumed(parser))[1]
    /\ locals.resolved = <<"1", "6">>
    /\ symbol_table.current_address = 18

\* C5: the Address instruction just compiled resolved (1) to the pass-1
\* address of its symbol when the symbol is a label defined anywhere in the
\* source, before or after this line, or to the seeded address when it is a
\* predefined name, with no variable allocated for it; (2) else, when the
\* symbol does not parse as an unsigned integer, to the address of the
\* variable allocated for it; (3) else to the symbol itself.
C5_LookupThenVariableThenLiteral ==
    (AfterPass1 /\ locals.kind = "A") =>
        LET sym    == locals.symbol
            labels == LabelNames(source)
        IN  IF sym \in labels
                THEN /\ locals.resolved = U32ToString(LabelAddress(source, sym))
                     /\ address(symbol_table, sym) = Some(LabelAddress(source, sym))
                     /\ symbol_table.current_address
                            = 16 + Cardinality((DOMAIN symbol_table.table)
                                    \ (PredefinedNames \cup labels))
            ELSE IF sym \in PredefinedNames
                THEN /\ locals.resolved = U32ToString(SymbolTableNew.table[sym])
                     /\ address(symbol_table, sym) = Some(SymbolTableNew.table[sym])
            ELSE IF ParseU32(sym) = None
                THEN /\ address(symbol_table, sym) # None
                     /\ address(symbol_table, sym)[1] >= 16
                     /\ locals.resolved = U32ToString(address(symbol_table, sym)[1])
            ELSE /\ locals.resolved = sym
                 /\ address(symbol_table, sym) = None

\* C5's case: a forward reference: the Address instruction just compiled
\* names a label whose only definition is on a later line, after a real
\* instruction, and resolved to that label's address.
C5_Witness ==
    /\ pc = "compile"
    /\ locals.kind = "A"
    /\ locals.symbol \in LabelNames(source)
    /\ \A p \in LabelPositions(source) :
           NameOfLabel(source[p]) = locals.symbol => p > Consumed(parser)
    /\ LabelAddress(source, locals.symbol) > 0
    /\ locals.resolved = U32ToString(LabelAddress(source, locals.symbol))
    /\ symbol_table.current_address = 16

\* The seeded addresses as the documentation lists them.
DocumentedPredefined ==
    { <<<<"R">> \o U32ToString(i), i>> : i \in 0..15 }
        \cup { <<<<"S", "P">>, 0>>, <<<<"L", "C", "L">>, 1>>, <<<<"A", "R", "G">>, 2>>,
               <<<<"T", "H", "I", "S">>, 3>>, <<<<"T", "H", "A", "T">>, 4>>,
               <<<<"S", "C", "R", "E", "E", "N">>, 16384>>,
               <<<<"K", "B", "D">>, 24576>> }

\* C6 as stated: in every state of a run every predefined name is bound to
\* its seeded address, whatever the program.
C6_PredefinedFixed ==
    \A e \in DocumentedPredefined : address(symbol_table, e[1]) = Some(e[2])

\* C6 as amended: in every state of a run every predefined name that the
\* program does not define as a label is bound to its seeded address.
C6_PredefinedFixedUnlessLabel ==
    LET labels == LabelNames(source)
    IN  \A e \in DocumentedPredefined :
            e[1] \notin labels => address(symbol_table, e[1]) = Some(e[2])

\* C6's case: a program with a label and a variable has been compiled up to
\* a reference to the predefined name SP, which resolved to 0.
C6_Witness ==
    /\ pc = "compile"
    /\ LabelNames(source) # {}
    /\ <<"S", "P">> \notin LabelNames(source)
    /\ symbol_table.current_address > 16
    /\ locals.kind = "A"
    /\ locals.symbol = <<"S", "P">>
    /\ locals.resolved = <<"0">>

\* C7: a_value_to_binary fails on every string that is not a non-negative
\* integer or whose value exceeds 65535.
C7_FailsBeyondSixteenBits ==
    (ret # None /\ (ParseU32(arg) = None \/ ParseU32(arg)[1] > 65535)) => ~ret[1].ok

\* C8: for the decimal string of every v in 0..65535, a_value_to_binary
\* returns 16 binary digits whose value is v; 12345 gives 0011000000111001.
C8_SixteenBitRoundTrip ==
    (/\ ret # None
     /\ \A i \in 1..Len(arg) : IsDigit(arg[i])
     /\ arg # <<>>
     /\ Len(arg) <= 5
     /\ DigitsValue(arg, 0) <= 65535
     /\ arg = U32ToString(DigitsValue(arg, 0))) =>
        /\ ret[1].ok
        /\ Len(ret[1].val) = 16
        /\ IsBinary(ret[1].val)
        /\ BinaryValue(ret[1].val, 0) = DigitsValue(arg, 0)
        /\ arg = <<"1", "2", "3", "4", "5">> =>
               ret[1].val = <<"0", "0", "1", "1", "0", "0", "0", "0",
                              "0", "0", "1", "1", "1", "0", "0", "1">>

\* C8's case: the call on the string 65535 returned sixteen ones.
C8_Witness ==
    /\ arg = <<"6", "5", "5", "3", "5">>
    /\ ret # None
    /\ ret[1].ok
    /\ ret[1].val = <<"1", "1", "1", "1", "1", "1", "1", "1",
                      "1", "1", "1", "1", "1", "1", "1", "1">>

\* Compute lines of the forms dest=comp and comp;jump, Address and Label lines.
TwoFieldLines ==
    { l \in WellFormedLines : ~(Contains(l, "=") /\ Contains(l, ";")) }

\* C9: a source of such lines, one real instruction at least, with blank
\* and comment-only lines at any positions never ends in a panic, no blank or comment-only line is ever
\* the current instruction of a parser, and the written output holds one
\* line for each real instruction.
C9_BlankLinesNeverFail ==
    (/\ \A i \in 1..Len(source) : source[i] \in TwoFieldLines \cup BlankLines
     /\ RealInstructions(source) # <<>>) =>
        /\ pc # "panic"
        /\ \A p \in {parser} \cup Range(scan) :
               p.current_instruction # None => ~IsSkipped(p.current_instruction[1])
        /\ pc = "done" =>
               Len(OutputLines(output_file[1])) = Len(RealInstructions(source))

\* C10: the current instruction of a parser never holds a whitespace
\* character, space or tab: advance stripped them all.
C10_AllWhitespaceStripped ==
    \A p \in {parser} \cup Range(scan) :
        p.current_instruction # None =>
            /\ ~Contains(p.current_instruction[1], " ")
            /\ ~Contains(p.current_instruction[1], "\t")

\* The bit of a condition.
Bit(b) == IF b THEN "1" ELSE "0"

\* The jump mnemonics in the order the documentation lists them.
JumpOrder ==
    << <<>>, <<"J", "G", "T">>, <<"J", "E", "Q">>, <<"J", "G", "E">>,
       <<"J", "L", "T">>, <<"J", "N", "E">>, <<"J", "L", "E">>, <<"J", "M", "P">> >>

\* C11: for every comp c of the 28 mnemonics, every dest string d over A, D
\* and M and every jump j of the 8 mnemonics, the Compute arm emits one
\* newline-terminated line of 16 characters: 111, the a-bit (1 iff c holds M),
\* the 6-bit code of c, the dest bits A-present, D-present, M-present, and
\* the 3-bit binary of j's rank 0..7 in the listed order; D+1 gives 0011111,
\* A-1 0110010, M-1 1110010.
C11_ComputeLineLayout ==
    (/\ pc \in {"compute", "panic"}
     /\ ret # None
     /\ arg[2] \in CompMnemonics
     /\ arg[3] \in Range(JumpOrder)) =>
        LET d == arg[1]
            c == arg[2]
            j == arg[3]
        IN  /\ ret[1].ok
            /\ compiled_output = ret[1].val \o <<"\n">>
            /\ Len(ret[1].val) = 16
            /\ SubSeq(ret[1].val, 1, 3) = <<"1", "1", "1">>
            /\ ret[1].val[4] = Bit(Contains(c, "M"))
            /\ \E e \in CompTable : e[1] = c /\ e[2] = SubSeq(ret[1].val, 5, 10)
            /\ SubSeq(ret[1].val, 11, 13)
                   = <<Bit(Contains(d, "A")), Bit(Contains(d, "D")), Bit(Contains(d, "M"))>>
            /\ BinaryValue(SubSeq(ret[1].val, 14, 16), 0) = PositionIn(JumpOrder, j) - 1
            /\ IsBinary(ret[1].val)
            /\ c = <<"D", "+", "1">> =>
                   SubSeq(ret[1].val, 4, 10) = <<"0", "0", "1", "1", "1", "1", "1">>
            /\ c = <<"A", "-", "1">> =>
                   SubSeq(ret[1].val, 4, 10) = <<"0", "1", "1", "0", "0", "1", "0">>
            /\ c = <<"M", "-", "1">> =>
                   SubSeq(ret[1].val, 4, 10) = <<"1", "1", "1", "0", "0", "1", "0">>

\* C11's case: the arm was run on comp M-1, dest MD and jump JMP and emitted
\* 111 1110010 011 111.
C11_Witness ==
    /\ pc = "compute"
    /\ arg = << <<"M", "D">>, <<"M", "-", "1">>, <<"J", "M", "P">> >>
    /\ ret # None
    /\ ret[1].val = <<"1", "1", "1", "1", "1", "1", "0", "0", "1", "0",
                      "0", "1", "1", "1", "1", "1">>
    /\ compiled_output = ret[1].val \o <<"\n">>

\* The fatal errors of a run.
FatalMessages ==
    {"invalid instruction", "no current instruction", "unexpected comp",
     "unexpected dest", "failed to parse A instruction"}

\* C12: no output is written unless the whole run succeeds. A run that hit a
\* fatal error, in pass 1 or at any instruction of pass 2, has written
\* nothing; the output exists only in the final state of a run without error,
\* where it holds every emitted line, every source line has been consumed and
\* no further step (so no second write) is possible.
C12_OutputAllOrNothing ==
    /\ pc = "panic" => (output_file = None /\ panic_msg \in FatalMessages)
    /\ pc \in {"new", "fill_symbol_table", "compile"} => output_file = None
    /\ pc = "done" =>
          /\ output_file = Some(compiled_output)
          /\ ~has_more_lines(parser)
          /\ panic_msg = ""
          /\ Len(OutputLines(compiled_output)) = Len(RealInstructions(source))
          /\ ~ENABLED Next

\* C12's case: pass 2 failed after it had encoded a line, and nothing was
\* written.
C12_Witness ==
    /\ pc = "panic"
    /\ scan = None
    /\ compiled_output # <<>>
    /\ output_file = None

\* The assembler is an Assembler<Uninitialized>: fill_symbol_table has not
\* returned (it may have panicked).
Unresolved == pc \in {"new", "fill_symbol_table"} \/ (pc = "panic" /\ scan # None)

\* The assembler is an Assembler<Initialized>: compile is running, has
\* returned or has panicked.
Resolved == pc \in {"compile", "done"} \/ (pc = "panic" /\ scan = None)

C13_StateOrdering ==
    /\ Unresolved # Resolved
    /\ Unresolved =>
          /\ compiled_output = <<>>
          /\ output_file = None
          /\ locals = NoLocals
          /\ symbol_table.current_address = FirstVariableAddress
          /\ DOMAIN symbol_table.table \subseteq PredefinedNames \cup LabelNames(source)
    /\ Resolved => \A n \in LabelNames(source) : address(symbol_table, n) # None

C13_StepOrdering ==
    /\ Resolved => Resolved'
    /\ (Unresolved /\ Resolved') =>
          /\ pc = "fill_symbol_table"
          /\ ~has_more_lines(scan[1])
          /\ Consumed(scan[1]) = Len(source)
          /\ symbol_table' = symbol_table
    /\ Resolved =>
          /\ \A n \in LabelNames(source) :
                 address(symbol_table', n) = address(symbol_table, n)
          /\ symbol_table' # symbol_table =>
                 /\ locals'.kind = "A"
                 /\ DOMAIN symbol_table'.table
                        = DOMAIN symbol_table.table \cup {locals'.symbol}
                 /\ locals'.symbol \notin LabelNames(source)

\* C13: the assembler moves one way from Unresolved to Resolved. While it is
\* Unresolved no line is encoded and no variable allocated; it becomes
\* Resolved only from the end of pass 1, when the clone has advanced over
\* every source line, and from then on every label of the source is in the
\* table; once Resolved it stays Resolved, and pass 2 changes the binding of
\* no label and adds no name but the symbol of an Address instruction that is
\* not a label.
C13_PhaseOrdering == [](C13_StateOrdering) /\ [][C13_StepOrdering]_vars

\* C13's case: pass 2 is running after a pass 1 that registered a label, it
\* has encoded a line and allocated a variable.
C13_Witness ==
    /\ pc = "compile"
    /\ LabelNames(source) # {}
    /\ \A n \in LabelNames(source) : address(symbol_table, n) # None
    /\ compiled_output # <<>>
    /\ symbol_table.current_address > FirstVariableAddress

\* C15: every table fails on input outside its vocabulary: comp_to_binary on
\* a string that is not a comp mnemonic, jump_to_binary on a string that is
\* not a jump mnemonic, and dest_to_binary on a string holding a character
\* other than A, D and M each panic instead of returning bits.
C15_TablesFailOutsideVocabulary ==
    ret # None =>
        /\ (pc = "comp_to_binary" /\ arg \notin CompMnemonics) => ~ret[1].ok
        /\ (pc = "jump_to_binary" /\ arg \notin Range(JumpOrder)) => ~ret[1].ok
        /\ (pc = "dest_to_binary" /\ \E i \in 1..Len(arg) : arg[i] \notin {"A", "D", "M"})
               => ~ret[1].ok

\* The shape of a current instruction by the documented tests, in their
\* priority: "@" first, "(" first, "=" or ";" anywhere.
ShapeOf(cur) ==
    IF cur = None THEN "none"
    ELSE IF cur[1] # <<>> /\ cur[1][1] = "@" THEN "A"
    ELSE IF cur[1] # <<>> /\ cur[1][1] = "(" THEN "L"
    ELSE IF \E i \in 1..Len(cur[1]) : cur[1][i] \in {"=", ";"} THEN "C"
    ELSE "invalid"

\* A source line that is not skipped and has none of the three shapes.
IsShapeless(line) ==
    ~IsSkipped(line) /\ ShapeOf(Some(Remove(line, " "))) = "invalid"

\* C16: instruction_type returns A for "@" first, else L for "(" first, else
\* C for "=" or ";" anywhere, panics "no current instruction" without a
\* current instruction and "invalid instruction" on any other line; symbol
\* returns on A and L and panics on C; dest, comp and jump return on C and
\* panic on A and L; and a source with a line of no shape never leaves
\* pass 1: the run panics there with nothing compiled.
C16_ClassificationAndAccessors ==
    /\ ret # None =>
          LET shape == ShapeOf(arg[2].current_instruction)
              r     == ret[1]
          IN  /\ arg[1] = "instruction_type" =>
                    /\ shape \in {"A", "L", "C"} => r = Ok(shape)
                    /\ shape = "none" => r = Panic("no current instruction")
                    /\ shape = "invalid" => r = Panic("invalid instruction")
              /\ arg[1] = "symbol" =>
                    /\ shape \in {"A", "L"} => r.ok
                    /\ shape = "C" => ~r.ok
                    /\ shape \in {"none", "invalid"} => ~r.ok
              /\ arg[1] \in {"dest", "comp", "jump"} =>
                    /\ shape = "C" => r.ok
                    /\ shape \in {"A", "L"} => ~r.ok
                    /\ shape \in {"none", "invalid"} => ~r.ok
    /\ (\E i \in 1..Len(source) : IsShapeless(source[i])) =>
          /\ Unresolved
          /\ compiled_output = <<>>
          /\ parser = ParserNew(source)
    /\ (pc = "panic" /\ panic_msg = "invalid instruction") =>
          /\ Unresolved
          /\ IsShapeless(source[Consumed(scan[1])])

\* C16's case: symbol was called while the current instruction was the
\* Compute instruction D=M;JGT, and panicked.
C16_Witness ==
    /\ ret # None
    /\ arg[1] = "symbol"
    /\ arg[2].current_instruction = Some(DJgt)
    /\ ret[1] = Panic("symbol cannot be called on C instruction type")

\* The label names the source defines more than once.
DuplicateLabels(src) ==
    { n \in LabelNames(src) :
        \E p, q \in LabelPositions(src) :
            p # q /\ NameOfLabel(src[p]) = n /\ NameOfLabel(src[q]) = n }

\* The addresses of the definitions of label n.
DefinitionAddresses(src, n) ==
    { RealBefore(src, p) : p \in { q \in LabelPositions(src) : NameOfLabel(src[q]) = n } }

\* C17: a label defined more than once is no error. A source of Address,
\* Label and two-field Compute lines that defines a label twice or more never
\* panics; once pass 1 is over each such name is bound to the address of its
\* last definition, and an Address instruction of pass 2 that refers to it,
\* wherever it stands, resolves to that address and emits it.
C17_LastDefinitionWins ==
    LET dups == DuplicateLabels(source)
    IN  dups # {} =>
            /\ (\A i \in 1..Len(source) : source[i] \in TwoFieldLines) => pc # "panic"
            /\ Resolved =>
                   \A n \in dups :
                       address(symbol_table, n) = Some(LabelAddress(source, n))
            /\ (Resolved /\ locals.kind = "A" /\ locals.symbol \in dups) =>
                   /\ locals.resolved = U32ToString(LabelAddress(source, locals.symbol))
                   /\ pc # "panic"
                   /\ LET lines == OutputLines(compiled_output)
                      IN  BinaryValue(lines[Len(lines)], 0)
                              = LabelAddress(source, locals.symbol)

\* C17's case: a label is defined at two different addresses, and a reference
\* that stands before its last definition has resolved to the last address.
C17_Witness ==
    /\ pc = "compile"
    /\ locals.kind = "A"
    /\ locals.symbol \in DuplicateLabels(source)
    /\ Cardinality(DefinitionAddresses(source, locals.symbol)) >= 2
    /\ Consumed(parser) < LastDefinition(source, locals.symbol)
    /\ locals.resolved = U32ToString(LabelAddress(source, locals.symbol))

\* compile has been entered and its loop has not run yet.
CompileStarts == pc = "compile" /\ locals = NoLocals

\* C18: pass 1 leaves the assembler's own parser untouched. Until compile
\* has taken its first step the parser is the one Assembler::new built: all
\* source lines ahead, no current instruction, index 0; nothing but the
\* symbol table differs from the state after construction, and in the table
\* only names were bound, the allocation counter is still 16. Pass 2 then
\* goes over the source from its first line: what its parser still holds is
\* always a suffix of the source, and a run that ends has consumed every line.
C18_PassOneLeavesParser ==
    /\ (Unresolved \/ CompileStarts) =>
          /\ parser = ParserNew(source)
          /\ parser.program = source
          /\ parser.current_instruction = None
          /\ instruction_index(parser) = 0
          /\ compiled_output = <<>>
          /\ output_file = None
          /\ locals = NoLocals
          /\ symbol_table.current_address = SymbolTableNew.current_address
    /\ Resolved =>
          /\ scan = None
          /\ parser.program
                 = SubSeq(source, Len(source) - Len(parser.program) + 1, Len(source))
    /\ pc = "done" => Consumed(parser) = Len(source)

\* C18's case: compile starts after a pass 1 that went over several lines
\* and bound a label, and its parser has every line ahead.
C18_Witness ==
    /\ CompileStarts
    /\ Len(source) >= 3
    /\ symbol_table # SymbolTableNew
    /\ parser.program = source

\* The names bound in the table that are neither predefined nor labels of
\* the source: the variables allocated so far.
Variables == (DOMAIN symbol_table.table) \ (PredefinedNames \cup LabelNames(source))

C19_CounterCountsVariables ==
    /\ symbol_table.current_address = FirstVariableAddress + Cardinality(Variables)
    /\ { symbol_table.table[v] : v \in Variables }
           = FirstVariableAddress..(symbol_table.current_address - 1)
    /\ \A v, w \in Variables :
           /\ symbol_table.table[v] >= FirstVariableAddress
           /\ v # w => symbol_table.table[v] # symbol_table.table[w]
    /\ Unresolved => Variables = {}

C19_PassTwoStep ==
    Resolved =>
        /\ \A n \in DOMAIN symbol_table.table :
               address(symbol_table', n) = address(symbol_table, n)
        /\ symbol_table' # symbol_table =>
               /\ locals'.kind = "A"
               /\ locals'.symbol \notin DOMAIN symbol_table.table
               /\ ParseU32(locals'.symbol) = None
               /\ symbol_table' =
                      [table |-> Insert(symbol_table.table, locals'.symbol,
                                        symbol_table.current_address),
                       current_address |-> symbol_table.current_address + 1]
        /\ (/\ parser' # parser
            /\ locals'.kind = "A"
            /\ locals'.symbol = symbol(parser').val
            /\ \/ ParseU32(locals'.symbol) # None
               \/ locals'.symbol \in DOMAIN symbol_table.table) =>
               symbol_table' = symbol_table

\* C19: during pass 2 the symbol table changes only by the insertion of a
\* name it did not hold, the non-numeric symbol of the Address instruction
\* just compiled, at the allocation counter, which then advances by one; no
\* binding the table holds (label, predefined name, earlier variable) is
\* ever modified; an Address instruction whose symbol is numeric or already
\* bound leaves table and counter as they were; and in every reachable state
\* the counter is 16 plus the number of variables, whose addresses are the
\* distinct values 16 .. counter - 1.
C19_TableGrowsByVariablesOnly ==
    [](C19_CounterCountsVariables) /\ [][C19_PassTwoStep]_vars

\* C19's case: with a label in the table, two variables were allocated at 16
\* and 17 and the Address instruction just compiled, with a bound symbol,
\* left the counter at 18.
C19_Witness ==
    /\ pc = "compile"
    /\ LabelNames(source) # {}
    /\ Cardinality(Variables) = 2
    /\ symbol_table.current_address = 18
    /\ locals.kind = "A"
    /\ locals.symbol \in DOMAIN symbol_table.table
    /\ symbol_table.table[locals.symbol] # 17

====
